---- MODULE Spec2Model ----
(***************************************************************************)
(* Model of src/src/etl_pipeline.py: a batch job that globs a directory    *)
(* for .csv files, reads and concatenates them (load_data), cleans them    *)
(* (transform_data) and writes the result to the 'sales' table of a SQLite *)
(* database (load_to_database) and to a processed .csv file (main).        *)
(*                                                                         *)
(* pandas values are modelled as records [kind, s, n]:                     *)
(*   kind = "null"  None / NaN / NaT (everything isna() answers True for)  *)
(*   kind = "str"   a Python str, text in s                                *)
(*   kind = "num"   a finite number, value in n (whole numbers only, on    *)
(*                  which IEEE-754 multiplication is exact)                *)
(*   kind = "inf"   float infinity, sign in n                              *)
(*   kind = "date"  a Timestamp, ISO text in s                             *)
(* A DataFrame is [columns, index, rows]: the column labels in order, the  *)
(* row labels in order, and one mapping column -> value per row.           *)
(* astype(str) follows numpy object semantics (pandas 1.x / 2.x): str() of *)
(* a missing value is the text "nan".                                      *)
(***************************************************************************)
EXTENDS Integers, Sequences, FiniteSets, TLC

\* ------------------------------------------------------------------ bounds
\* Most files a multi-file directory holds.
MaxFiles == 2
\* Most data lines a file holds.
MaxRows == 2

\* ------------------------------------------------------------ configuration
INPUT_DATA_PATH == "./data/input/"
PROCESSED_DATA_PATH == "./data/processed/"
DB_FILE_PATH == "sales_data.db"

\* ------------------------------------------------------------------ values
Null == [kind |-> "null", s |-> "", n |-> 0]
Str(x) == [kind |-> "str", s |-> x, n |-> 0]
Num(x) == [kind |-> "num", s |-> "", n |-> x]
Inf(sign) == [kind |-> "inf", s |-> "", n |-> sign]
Date(x) == [kind |-> "date", s |-> x, n |-> 0]

isna(v) == v.kind = "null"

Range(q) == {q[i] : i \in DOMAIN q}

\* str(x) of one cell; a missing value prints as "nan"
PyStr(v) ==
    CASE v.kind = "str" -> v
      [] v.kind = "null" -> Str("nan")
      [] v.kind = "num" -> Str(ToString(v.n))
      [] v.kind = "inf" -> Str(IF v.n < 0 THEN "-inf" ELSE "inf")
      [] OTHER -> Str(v.s)

\* ---------------------------------------------------------------- DataFrame
EmptyFrame == [columns |-> <<>>, index |-> <<>>, rows |-> <<>>]

HasColumn(df, c) == c \in Range(df.columns)

\* DataFrame.empty: any axis of length 0
IsEmpty(df) == Len(df.index) = 0 \/ Len(df.columns) = 0

\* df[c] = vals (vals aligned with the rows); a new column goes last
SetColumn(df, c, vals) ==
    [columns |-> IF HasColumn(df, c) THEN df.columns ELSE Append(df.columns, c),
     index |-> df.index,
     rows |-> [i \in 1..Len(df.rows) |->
                 [k \in Range(df.columns) \cup {c} |->
                    IF k = c THEN vals[i] ELSE df.rows[i][k]]]]

\* positions (in order) at which the boolean mask is TRUE
RECURSIVE Keep(_, _)
Keep(mask, i) ==
    IF i > Len(mask) THEN <<>>
    ELSE IF mask[i] THEN <<i>> \o Keep(mask, i + 1)
    ELSE Keep(mask, i + 1)

\* boolean-mask selection df[mask]: rows and their labels, order kept
SelectRows(df, mask) ==
    LET pos == Keep(mask, 1)
    IN [columns |-> df.columns,
        index |-> [j \in 1..Len(pos) |-> df.index[pos[j]]],
        rows |-> [j \in 1..Len(pos) |-> df.rows[pos[j]]]]

\* ------------------------------------------------------------- column names
column_map ==
    [ORDERDATE |-> "SaleDate", PRODUCTCODE |-> "Item",
     QUANTITYORDERED |-> "Quantity", PRICEEACH |-> "Price",
     PRODUCTLINE |-> "Category"]

final_cols ==
    <<"SaleDate", "Item", "Quantity", "Price", "Category", "TotalSales", "source_file">>

\* df.rename(columns=mapper): labels in the mapper are replaced, others pass
Renamed(mapper, c) == IF c \in DOMAIN mapper THEN mapper[c] ELSE c

Rename(df, mapper) ==
    [columns |-> [i \in 1..Len(df.columns) |-> Renamed(mapper, df.columns[i])],
     index |-> df.index,
     rows |-> [i \in 1..Len(df.rows) |->
                 [k \in {Renamed(mapper, c) : c \in Range(df.columns)} |->
                    df.rows[i][CHOOSE c \in Range(df.columns) : Renamed(mapper, c) = k]]]]

\* ---------------------------------------------------------------- coercions
\* pd.to_datetime(cell, errors='coerce') on one cell: the timestamp of a
\* date text, NaT for anything else
to_datetime(v) ==
    CASE v.kind = "date" -> v
      [] v.kind = "str" /\ v.s = "2/24/2003 0:00" -> Date("2003-02-24")
      [] v.kind = "str" /\ v.s = "5/7/2003 0:00" -> Date("2003-05-07")
      [] OTHER -> Null

\* pd.to_numeric(cell, errors='coerce') on one cell: the number a numeric
\* text spells ("inf" spells float infinity), NaN for anything else
to_numeric(v) ==
    CASE v.kind \in {"num", "inf"} -> v
      [] v.kind = "str" /\ v.s = "0" -> Num(0)
      [] v.kind = "str" /\ v.s = "2" -> Num(2)
      [] v.kind = "str" /\ v.s = "3" -> Num(3)
      [] v.kind = "str" /\ v.s = "inf" -> Inf(1)
      [] v.kind = "str" /\ v.s = "-inf" -> Inf(-1)
      [] OTHER -> Null

Sign(x) == IF x < 0 THEN -1 ELSE 1

\* float multiplication: NaN propagates, inf * 0 is NaN
Mul(a, b) ==
    CASE a.kind = "num" /\ b.kind = "num" -> Num(a.n * b.n)
      [] a.kind = "inf" /\ b.kind = "inf" -> Inf(a.n * b.n)
      [] a.kind = "inf" /\ b.kind = "num" -> IF b.n = 0 THEN Null ELSE Inf(a.n * Sign(b.n))
      [] a.kind = "num" /\ b.kind = "inf" -> IF a.n = 0 THEN Null ELSE Inf(b.n * Sign(a.n))
      [] OTHER -> Null

\* df.get(c): the column's cells, or None (broadcast to every row by the
\* assignment that follows) when the column does not exist
GetOrNone(df, c) ==
    [i \in 1..Len(df.rows) |-> IF HasColumn(df, c) THEN df.rows[i][c] ELSE Null]

\* Series.astype(str): str() of every cell
AsTypeStr(col) == [i \in DOMAIN col |-> PyStr(col[i])]

\* Series.fillna(value)
FillNa(col, value) == [i \in DOMAIN col |-> IF isna(col[i]) THEN value ELSE col[i]]

\* isin that lets a missing cell pass
IsInOrMissing(col, values) == [i \in DOMAIN col |-> col[i] \in values \/ isna(col[i])]

\* Series.isin(values)
IsIn(col, values) == [i \in DOMAIN col |-> col[i] \in values]

\* dropna(how='all'): drops a row only when all of the cells are missing
DropNaAll(df, subset) ==
    SelectRows(df, [i \in 1..Len(df.rows) |-> \E c \in subset : ~isna(df.rows[i][c])])

\* df.dropna(subset=cols): drops a row when any of the cells is missing
DropNa(df, subset) ==
    SelectRows(df, [i \in 1..Len(df.rows) |-> \A c \in subset : ~isna(df.rows[i][c])])

\* df[[c1, c2, ...]]: the named columns in the order given
RECURSIVE Present(_, _, _)
Present(df, cols, i) ==
    IF i > Len(cols) THEN <<>>
    ELSE IF HasColumn(df, cols[i]) THEN <<cols[i]>> \o Present(df, cols, i + 1)
    ELSE Present(df, cols, i + 1)

Project(df, cols) ==
    [columns |-> cols,
     index |-> df.index,
     rows |-> [i \in 1..Len(df.rows) |-> [k \in Range(cols) |-> df.rows[i][k]]]]

\* --------------------------------------------------------------------- logs
LogLine(level, msg, count) == [level |-> level, msg |-> msg, n |-> count]

\* ------------------------------------------------------------ transform_data
Returned(df, lines) == [raised |-> FALSE, exc |-> "", df |-> df, log |-> lines]
Raised(exc) == [raised |-> TRUE, exc |-> exc, df |-> EmptyFrame, log |-> <<>>]

\* lines 53-55: the three coerced columns
CoerceTypes(df) ==
    LET d1 == SetColumn(df, "SaleDate",
                 [i \in 1..Len(df.rows) |-> to_datetime(GetOrNone(df, "SaleDate")[i])])
        d2 == SetColumn(d1, "Quantity",
                 [i \in 1..Len(d1.rows) |-> to_numeric(GetOrNone(d1, "Quantity")[i])])
    IN SetColumn(d2, "Price",
                 [i \in 1..Len(d2.rows) |-> to_numeric(GetOrNone(d2, "Price")[i])])

\* line 56: df.get('Category', 'Unknown') is the str 'Unknown' when the column
\* does not exist, and a str has no astype: AttributeError
CoerceCategory(df) ==
    IF ~HasColumn(df, "Category") THEN Raised("AttributeError")
    ELSE Returned(SetColumn(df, "Category",
                     FillNa(AsTypeStr(GetOrNone(df, "Category")), Str("Unknown"))), <<>>)

\* df.get('STATUS') in place of df['STATUS']: no column, no row passes
FilterStatusLenient(df) ==
    Returned(SelectRows(df,
        [i \in 1..Len(df.rows) |->
            HasColumn(df, "STATUS") /\ df.rows[i]["STATUS"] \in {Str("Shipped"), Str("Resolved")}]),
        <<>>)

\* line 58: df['STATUS'] raises KeyError when the column does not exist
FilterStatus(df) ==
    IF ~HasColumn(df, "STATUS") THEN Raised("KeyError: 'STATUS'")
    ELSE Returned(SelectRows(df,
                     IsIn(GetOrNone(df, "STATUS"), {Str("Shipped"), Str("Resolved")})), <<>>)

\* line 59: dropna raises KeyError when a subset label is not a column
DropIncomplete(df) ==
    LET subset == {"SaleDate", "Item", "Quantity", "Price"}
    IN IF \E c \in subset : ~HasColumn(df, c) THEN Raised("KeyError: ['Item']")
       ELSE Returned(DropNa(df, subset), <<>>)

\* line 65
AddTotalSales(df) ==
    SetColumn(df, "TotalSales",
        [i \in 1..Len(df.rows) |-> Mul(df.rows[i]["Quantity"], df.rows[i]["Price"])])

transform_data(df) ==
    IF IsEmpty(df)
    THEN Returned(df, <<LogLine("WARNING", "DataFrame is empty. Skipping transformation.", 0)>>)
    ELSE
    LET c == CoerceCategory(CoerceTypes(Rename(df, column_map)))
    IN IF c.raised THEN c ELSE
       LET f == FilterStatus(c.df)
       IN IF f.raised THEN f ELSE
          LET d == DropIncomplete(f.df)
          IN IF d.raised THEN d ELSE
             IF IsEmpty(d.df)
             THEN Returned(d.df, <<LogLine("WARNING", "No valid data after cleaning.", 0)>>)
             ELSE LET t == AddTotalSales(d.df)
                  IN Returned(Project(t, Present(t, final_cols, 1)), <<>>)

\* ------------------------------------------------------------------- files
\* the whole path in place of its base name
fullname(path) == path.dir \o path.stem \o path.ext

\* a path is [dir, stem, ext]; os.path.basename drops the directory
basename(path) == path.stem \o path.ext

\* glob.glob(os.path.join(directory_path, '*.csv')) over the entries of the
\* directory, in the order the file system lists them
RECURSIVE Glob(_, _, _)
Glob(entries, directory_path, i) ==
    IF i > Len(entries) THEN <<>>
    ELSE IF entries[i].path.dir = directory_path /\ entries[i].path.ext = ".csv"
         THEN <<entries[i].path>> \o Glob(entries, directory_path, i + 1)
         ELSE Glob(entries, directory_path, i + 1)

find_csv_files(entries, directory_path) == Glob(entries, directory_path, 1)

FileAt(entries, path) == CHOOSE f \in Range(entries) : f.path = path

\* pd.read_csv(file, encoding=...): the header gives the columns, the data
\* lines the rows (labelled 0, 1, ...), an empty cell is NaN; bytes that are
\* not valid UTF-8 raise UnicodeDecodeError under encoding='utf-8', while
\* latin1 decodes every byte
read_csv(file, encoding) ==
    IF encoding = "utf-8" /\ file.enc # "utf-8" THEN Raised("UnicodeDecodeError")
    ELSE Returned([columns |-> file.header,
                   index |-> [i \in 1..Len(file.lines) |-> i - 1],
                   rows |-> [i \in 1..Len(file.lines) |->
                               [c \in Range(file.header) |->
                                  file.lines[i][CHOOSE j \in 1..Len(file.header) :
                                                   file.header[j] = c]]]], <<>>)

\* lines 30-34: one iteration of load_data's loop
LoadOne(file) ==
    LET first == read_csv(file, "utf-8")
        df == IF first.raised THEN read_csv(file, "latin1").df ELSE first.df
    IN SetColumn(df, "source_file",
                 [i \in 1..Len(df.rows) |-> Str(basename(file.path))])

\* the columns of all frames, in order of first appearance
RECURSIVE UnionColumns(_, _)
UnionColumns(frames, i) ==
    IF i > Len(frames) THEN <<>>
    ELSE LET rest == UnionColumns(frames, i + 1)
         IN frames[i].columns \o SelectSeq(rest, LAMBDA c : ~HasColumn(frames[i], c))

RECURSIVE ConcatRows(_, _, _)
ConcatRows(frames, cols, i) ==
    IF i > Len(frames) THEN <<>>
    ELSE [j \in 1..Len(frames[i].rows) |->
             [c \in cols |-> IF HasColumn(frames[i], c) THEN frames[i].rows[j][c] ELSE Null]]
         \o ConcatRows(frames, cols, i + 1)

\* pd.concat(frames, ignore_index=True): rows of each frame in turn, the
\* union of the columns, NaN where a frame lacks a column, labels renumbered
concat(frames) ==
    LET cols == UnionColumns(frames, 1)
        rows == ConcatRows(frames, Range(cols), 1)
    IN [columns |-> cols,
        index |-> [i \in 1..Len(rows) |-> i - 1],
        rows |-> rows]

\* lines 36-38
load_data_result(frames) == IF frames # <<>> THEN concat(frames) ELSE EmptyFrame

\* -------------------------------------------------------------------- sinks
\* a stored table (SQL table or .csv file): no row labels (index=False)
TableOf(df) == [exists |-> TRUE, columns |-> df.columns, rows |-> df.rows]

\* if_exists='append'
to_sql_append(df, prior) ==
    [exists |-> TRUE, columns |-> df.columns, rows |-> prior.rows \o df.rows]

\* df.to_sql(name, if_exists='replace', index=False) when it succeeds
to_sql(df, prior) == TableOf(df)

\* what a failed to_sql can leave behind: the prior table (the transaction
\* rolled back) or the re-created table without rows (the drop committed)
FailedWrite(df, prior) == {prior, [exists |-> TRUE, columns |-> df.columns, rows |-> <<>>]}

\* load_to_database without the guard of lines 74-76
load_to_database_unguarded(df, prior, outcome) ==
    IF outcome = "ok"
    THEN {[table |-> TableOf(df), exc |-> "",
           log |-> <<LogLine("INFO", "Successfully loaded rows into 'sales' table.", Len(df.index))>>]}
    ELSE {[table |-> t, exc |-> "",
           log |-> <<LogLine("ERROR", "Failed to load data to database", 0)>>] :
            t \in FailedWrite(df, prior)}

\* load_to_database whose except clause raises again
load_to_database_reraising(df, prior, outcome) ==
    IF IsEmpty(df)
    THEN {[table |-> prior, exc |-> "",
           log |-> <<LogLine("WARNING", "Transformed data is empty, skipping database load.", 0)>>]}
    ELSE IF outcome = "ok"
    THEN {[table |-> TableOf(df), exc |-> "",
           log |-> <<LogLine("INFO", "Successfully loaded rows into 'sales' table.", Len(df.index))>>]}
    ELSE {[table |-> t, exc |-> "OperationalError",
           log |-> <<LogLine("ERROR", "Failed to load data to database", 0)>>] :
            t \in FailedWrite(df, prior)}

\* load_to_database(df, table_name, engine); outcome is the store's answer
load_to_database(df, prior, outcome) ==
    IF IsEmpty(df)
    THEN {[table |-> prior, exc |-> "",
           log |-> <<LogLine("WARNING", "Transformed data is empty, skipping database load.", 0)>>]}
    ELSE IF outcome = "ok"
    THEN {[table |-> to_sql(df, prior), exc |-> "",
           log |-> <<LogLine("INFO", "Successfully loaded rows into 'sales' table.", Len(df.index))>>]}
    ELSE {[table |-> t, exc |-> "",
           log |-> <<LogLine("ERROR", "Failed to load data to database", 0)>>] :
            t \in FailedWrite(df, prior)}

\* df.to_csv(output_file, index=False) when it succeeds
to_csv(df, prior) == TableOf(df)

\* lines 106-109 of main
export_csv(df, prior, outcome) ==
    IF IsEmpty(df) THEN {[file |-> prior, exc |-> "", log |-> <<>>]}
    ELSE IF outcome = "ok"
    THEN {[file |-> to_csv(df, prior), exc |-> "",
           log |-> <<LogLine("INFO", "Successfully saved transformed data", 0)>>]}
    ELSE {[file |-> f, exc |-> "OSError", log |-> <<>>] :
            f \in {prior, [exists |-> TRUE, columns |-> <<>>, rows |-> <<>>]}}

\* ------------------------------------------------------------------- inputs
Encodings == {"utf-8", "latin1"}

FullHeader ==
    <<"ORDERDATE", "PRODUCTCODE", "QUANTITYORDERED", "PRICEEACH", "PRODUCTLINE", "STATUS">>

Without(header, c) == SelectSeq(header, LAMBDA x : x # c)

\* headers of the files a directory may hold: the full export, the same with
\* the columns already under their canonical names, and exports lacking one
\* column
Headers ==
    {FullHeader,
     [i \in 1..Len(FullHeader) |-> Renamed(column_map, FullHeader[i])],
     Without(FullHeader, "STATUS"),
     Without(FullHeader, "PRODUCTLINE"),
     Without(FullHeader, "PRODUCTCODE"),
     Without(FullHeader, "ORDERDATE"),
     Without(FullHeader, "QUANTITYORDERED")}

\* headers of the files of a multi-file directory
MixHeaders == {FullHeader, Without(FullHeader, "PRODUCTLINE")}

GoodRow ==
    [ORDERDATE |-> Str("2/24/2003 0:00"), PRODUCTCODE |-> Str("S10_1678"),
     QUANTITYORDERED |-> Str("2"), PRICEEACH |-> Str("3"),
     PRODUCTLINE |-> Str("Motorcycles"), STATUS |-> Str("Shipped")]

\* the lines of a sample extract: complete rows, rows of every status, and
\* rows with one unusable cell
SampleRows ==
    <<GoodRow,
      [GoodRow EXCEPT !.STATUS = Null],
      [GoodRow EXCEPT !.STATUS = Str("Resolved"), !.ORDERDATE = Str("5/7/2003 0:00"),
                      !.PRODUCTCODE = Str("S18_2325"), !.QUANTITYORDERED = Str("3"),
                      !.PRODUCTLINE = Null],
      [GoodRow EXCEPT !.ORDERDATE = Str("not-a-date")],
      [GoodRow EXCEPT !.STATUS = Str("Cancelled")],
      [GoodRow EXCEPT !.STATUS = Str("shipped")],
      [GoodRow EXCEPT !.PRODUCTCODE = Null],
      [GoodRow EXCEPT !.QUANTITYORDERED = Str("abc")],
      [GoodRow EXCEPT !.PRICEEACH = Null],
      [GoodRow EXCEPT !.QUANTITYORDERED = Str("inf"), !.PRICEEACH = Str("0")]>>

\* the raw column a header label stands for
RawName(c) ==
    IF \E r \in DOMAIN column_map : column_map[r] = c
    THEN CHOOSE r \in DOMAIN column_map : column_map[r] = c
    ELSE c

\* the cells of a row under a header
Line(row, header) == [j \in 1..Len(header) |-> row[RawName(header[j])]]

CsvFile(stem, enc, header, rows) ==
    [path |-> [dir |-> INPUT_DATA_PATH, stem |-> stem, ext |-> ".csv"],
     enc |-> enc, header |-> header,
     lines |-> [i \in 1..Len(rows) |-> Line(rows[i], header)]]

NotesFile ==
    [path |-> [dir |-> INPUT_DATA_PATH, stem |-> "notes", ext |-> ".txt"],
     enc |-> "utf-8", header |-> <<>>, lines |-> <<>>]

\* n lines of the sample extract, starting at line first
SampleLines(first, n) ==
    [j \in 1..n |-> SampleRows[((first + j - 2) % Len(SampleRows)) + 1]]

\* a directory with one .csv file, holding consecutive lines of the sample
\* extract, beside a file that is no .csv
SingleFileDirectories ==
    {<<NotesFile, CsvFile("sales_1", enc, header, SampleLines(first, n))>> :
        enc \in Encodings, header \in Headers,
        first \in 1..Len(SampleRows), n \in 0..MaxRows}

\* a directory with several .csv files, file i holding lines of the sample
\* extract from line i on
MultiFileDirectories ==
    UNION {
      {[i \in 1..k |-> CsvFile("sales_" \o ToString(i), spec[i].enc, spec[i].header,
                               SampleLines(i, spec[i].n))] :
          spec \in [1..k -> [enc : Encodings, header : MixHeaders, n : 0..MaxRows]]} :
      k \in 2..MaxFiles}

Directories == {<<>>, <<NotesFile>>} \cup SingleFileDirectories \cup MultiFileDirectories

\* the contents of the stores left by an earlier run
PriorFrame ==
    [columns |-> final_cols,
     index |-> <<0>>,
     rows |-> <<[SaleDate |-> Date("2003-01-06"), Item |-> Str("S24_3969"),
                 Quantity |-> Num(2), Price |-> Num(2), Category |-> Str("Trains"),
                 TotalSales |-> Num(4), source_file |-> Str("sales_0.csv")]>>]

\* -------------------------------------------------------------------- state
VARIABLES
    directory,          \* the entries of INPUT_DATA_PATH
    db,                 \* table 'sales' of DB_FILE_PATH
    out_csv,            \* PROCESSED_DATA_PATH/processed_sales_data.csv
    pc,                 \* where main is
    csv_files,          \* main's csv_files
    data_frames,        \* load_data's data_frames
    raw_data,           \* main's raw_data
    transformed_data,   \* main's transformed_data
    exc,                \* the exception that ended main, "" when none
    log,                \* the log lines of this run
    calls,              \* the calls of main that returned in this run
    db0,                \* db when this run started
    csv0                \* out_csv when this run started

vars ==
    <<directory, db, out_csv, pc, csv_files, data_frames, raw_data,
      transformed_data, exc, log, calls, db0, csv0>>

Init ==
    /\ directory \in Directories
    /\ db = TableOf(PriorFrame)
    /\ out_csv = TableOf(PriorFrame)
    /\ pc = "start"
    /\ csv_files = <<>>
    /\ data_frames = <<>>
    /\ raw_data = EmptyFrame
    /\ transformed_data = EmptyFrame
    /\ exc = ""
    /\ log = <<>>
    /\ calls = <<>>
    /\ db0 = db
    /\ csv0 = out_csv

\* lines 92-97
FindCsvFiles ==
    /\ pc = "start"
    /\ LET found == find_csv_files(directory, INPUT_DATA_PATH)
       IN /\ csv_files' = found
          /\ calls' = Append(calls, "find_csv_files")
          /\ IF found = <<>>
             THEN /\ log' = <<LogLine("INFO", "Starting ETL process.", 0),
                              LogLine("WARNING", "No CSV files found.", 0)>>
                  /\ pc' = "done"
             ELSE /\ log' = <<LogLine("INFO", "Starting ETL process.", 0)>>
                  /\ pc' = "load"
    /\ UNCHANGED <<directory, db, out_csv, data_frames, raw_data, transformed_data,
                   exc, db0, csv0>>

\* lines 29-35, the file decodes as UTF-8
ReadCsvUtf8 ==
    /\ pc = "load"
    /\ Len(data_frames) < Len(csv_files)
    /\ LET file == FileAt(directory, csv_files[Len(data_frames) + 1])
       IN /\ ~read_csv(file, "utf-8").raised
          /\ data_frames' = Append(data_frames, LoadOne(file))
    /\ UNCHANGED <<directory, db, out_csv, pc, csv_files, raw_data, transformed_data,
                   exc, log, calls, db0, csv0>>

\* lines 29-35, UnicodeDecodeError and the latin1 retry
ReadCsvLatin1 ==
    /\ pc = "load"
    /\ Len(data_frames) < Len(csv_files)
    /\ LET file == FileAt(directory, csv_files[Len(data_frames) + 1])
       IN /\ read_csv(file, "utf-8").raised
          /\ data_frames' = Append(data_frames, LoadOne(file))
    /\ UNCHANGED <<directory, db, out_csv, pc, csv_files, raw_data, transformed_data,
                   exc, log, calls, db0, csv0>>

\* lines 36-38 and line 99
LoadDataReturn ==
    /\ pc = "load"
    /\ Len(data_frames) = Len(csv_files)
    /\ raw_data' = load_data_result(data_frames)
    /\ calls' = Append(calls, "load_data")
    /\ pc' = "transform"
    /\ UNCHANGED <<directory, db, out_csv, csv_files, data_frames, transformed_data,
                   exc, log, db0, csv0>>

\* line 100; an exception of transform_data ends main
Transform ==
    /\ pc = "transform"
    /\ LET r == transform_data(raw_data)
       IN IF r.raised
          THEN /\ exc' = r.exc
               /\ pc' = "done"
               /\ UNCHANGED <<transformed_data, log, calls>>
          ELSE /\ transformed_data' = r.df
               /\ log' = log \o r.log
               /\ calls' = Append(calls, "transform_data")
               /\ pc' = "sink"
               /\ UNCHANGED exc
    /\ UNCHANGED <<directory, db, out_csv, csv_files, data_frames, raw_data, db0, csv0>>

\* line 103
LoadToDatabase ==
    /\ pc = "sink"
    /\ \E outcome \in {"ok", "fail"} :
         \E r \in load_to_database(transformed_data, db, outcome) :
            /\ db' = r.table
            /\ log' = log \o r.log
            /\ IF r.exc # ""
               THEN exc' = r.exc /\ pc' = "done" /\ UNCHANGED calls
               ELSE pc' = "export" /\ calls' = Append(calls, "load_to_database")
                    /\ UNCHANGED exc
    /\ UNCHANGED <<directory, out_csv, csv_files, data_frames, raw_data,
                   transformed_data, db0, csv0>>

\* lines 106-109
ExportCsv ==
    /\ pc = "export"
    /\ \E outcome \in {"ok", "fail"} :
         \E r \in export_csv(transformed_data, out_csv, outcome) :
            /\ out_csv' = r.file
            /\ log' = log \o r.log
            /\ exc' = r.exc
            /\ calls' = IF r.exc = "" /\ ~IsEmpty(transformed_data)
                        THEN Append(calls, "to_csv") ELSE calls
    /\ pc' = "done"
    /\ UNCHANGED <<directory, db, csv_files, data_frames, raw_data,
                   transformed_data, db0, csv0>>

\* the job is run again over the same directory
RunAgain ==
    /\ pc = "done"
    /\ pc' = "start"
    /\ csv_files' = <<>>
    /\ data_frames' = <<>>
    /\ raw_data' = EmptyFrame
    /\ transformed_data' = EmptyFrame
    /\ exc' = ""
    /\ log' = <<>>
    /\ calls' = <<>>
    /\ db0' = db
    /\ csv0' = out_csv
    /\ UNCHANGED <<directory, db, out_csv>>

Next ==
    \/ FindCsvFiles
    \/ ReadCsvUtf8
    \/ ReadCsvLatin1
    \/ LoadDataReturn
    \/ Transform
    \/ LoadToDatabase
    \/ ExportCsv
    \/ RunAgain

Spec == Init /\ [][Next]_vars

\* ------------------------------------------------------------ claim helpers
TransformReturned == "transform_data" \in Range(calls)

\* transform_data was called and has returned or raised
TransformDone ==
    \/ TransformReturned
    \/ pc = "done" /\ "load_data" \in Range(calls)

RawRowCount == Len(raw_data.rows)

AcceptedStatus == {Str("Shipped"), Str("Resolved")}

\* the raw row that carries row label l (load_data numbers the rows 0, 1, ...)
RawRow(l) == raw_data.rows[l + 1]

\* the cell a raw row holds for a canonical column, under either of its names
RawCell(row, c) ==
    IF c \in DOMAIN row THEN row[c]
    ELSE IF RawName(c) \in DOMAIN row THEN row[RawName(c)]
    ELSE Null

OutLabels == Range(transformed_data.index)

\* a raw row has every required field after coercion
Complete(row) ==
    /\ ~isna(to_datetime(RawCell(row, "SaleDate")))
    /\ ~isna(RawCell(row, "Item"))
    /\ ~isna(to_numeric(RawCell(row, "Quantity")))
    /\ ~isna(to_numeric(RawCell(row, "Price")))

LastLog == IF log = <<>> THEN LogLine("", "", 0) ELSE log[Len(log)]

SinkSucceeded ==
    /\ pc = "export"
    /\ LastLog.msg = "Successfully loaded rows into 'sales' table."

SinkFailed == \E i \in DOMAIN log : log[i].msg = "Failed to load data to database"

\* ------------------------------------------------------------------ claims
\* C1: when transform_data returns for a raw table with at least one row and a
\* STATUS column, no raw row whose STATUS is other than exactly "Shipped" or
\* "Resolved" (a missing STATUS and other spellings included) is in the
\* returned table, and every returned row is a raw row with one of those two
\* values.
C1_FilterCorrectness ==
    (TransformReturned /\ RawRowCount >= 1 /\ HasColumn(raw_data, "STATUS")) =>
        /\ \A i \in 1..RawRowCount :
              raw_data.rows[i]["STATUS"] \notin AcceptedStatus
                 => raw_data.index[i] \notin OutLabels
        /\ \A j \in 1..Len(transformed_data.index) :
              /\ transformed_data.index[j] \in Range(raw_data.index)
              /\ RawRow(transformed_data.index[j])["STATUS"] \in AcceptedStatus
              /\ transformed_data.rows[j]["Item"]
                    = RawCell(RawRow(transformed_data.index[j]), "Item")
              /\ transformed_data.rows[j]["source_file"]
                    = RawRow(transformed_data.index[j])["source_file"]

\* a table was returned that keeps a row while rows with a missing STATUS or
\* with another spelling were dropped
C1_Witness ==
    /\ TransformReturned
    /\ ~IsEmpty(transformed_data)
    /\ HasColumn(raw_data, "STATUS")
    /\ \E i \in 1..RawRowCount :
          /\ raw_data.rows[i]["STATUS"] \in {Null, Str("shipped")}
          /\ raw_data.index[i] \notin OutLabels

\* C2: when transform_data returns for a raw table with at least one row, every
\* returned row has a non-null SaleDate, Item, Quantity and Price, and a raw
\* row whose date or numbers fail to parse or whose product code is null is
\* not in the returned table.
C2_Completeness ==
    (TransformReturned /\ RawRowCount >= 1) =>
        /\ \A j \in 1..Len(transformed_data.rows) :
              \A c \in {"SaleDate", "Item", "Quantity", "Price"} :
                 /\ HasColumn(transformed_data, c)
                 /\ ~isna(transformed_data.rows[j][c])
        /\ \A i \in 1..RawRowCount :
              ~Complete(raw_data.rows[i]) => raw_data.index[i] \notin OutLabels

\* a row with an accepted STATUS and an unparsable ORDERDATE was dropped from
\* a table that kept another row
C2_Witness ==
    /\ TransformReturned
    /\ ~IsEmpty(transformed_data)
    /\ \E i \in 1..RawRowCount :
          /\ RawCell(raw_data.rows[i], "STATUS") \in AcceptedStatus
          /\ RawCell(raw_data.rows[i], "SaleDate") = Str("not-a-date")
          /\ raw_data.index[i] \notin OutLabels

\* C3: in every row of a non-empty returned table TotalSales is the product of
\* the row's Quantity and Price, and TotalSales is never null.
C3_TotalSales ==
    (TransformReturned /\ ~IsEmpty(transformed_data)) =>
        \A j \in 1..Len(transformed_data.rows) :
           /\ transformed_data.rows[j]["TotalSales"]
                 = Mul(transformed_data.rows[j]["Quantity"], transformed_data.rows[j]["Price"])
           /\ ~isna(transformed_data.rows[j]["TotalSales"])

\* C4: for a raw table with at least one row transform_data does not raise for
\* want of a Category column, and every returned row's Category is "Unknown"
\* when the raw table has no such column or the row's cell is null, and the
\* cell's text otherwise.
C4_CategoryCoercion ==
    (TransformDone /\ RawRowCount >= 1) =>
        /\ exc # "AttributeError"
        /\ TransformReturned =>
              \A j \in 1..Len(transformed_data.rows) :
                 LET cell == RawCell(RawRow(transformed_data.index[j]), "Category")
                 IN transformed_data.rows[j]["Category"]
                       = IF isna(cell) THEN Str("Unknown") ELSE PyStr(cell)

\* C5: after load_to_database succeeds with a non-empty table the destination
\* holds exactly that table's rows, whatever it held before; a second call
\* with the same table therefore leaves the destination as the first did.
C5_ReplaceSemantics ==
    SinkSucceeded =>
        /\ db = TableOf(transformed_data)
        /\ Len(db.rows) = Len(transformed_data.index)
        /\ LastLog.n = Len(db.rows)

\* the second successful load of the same table in a row: the destination
\* already held the table when the run started
C5_Witness ==
    /\ SinkSucceeded
    /\ ~IsEmpty(transformed_data)
    /\ db0 = TableOf(transformed_data)
    /\ db = db0
    /\ db # TableOf(PriorFrame)

\* C6: a run that finds no .csv file or whose transformed table has no rows
\* ends without an exception and leaves the 'sales' table and the export file
\* as they were; load_to_database with an empty table writes nothing.
C6_NoEmptyWrite ==
    /\ (pc = "done" /\ "find_csv_files" \in Range(calls)
          /\ (csv_files = <<>> \/ (TransformReturned /\ Len(transformed_data.index) = 0)))
          => (db = db0 /\ out_csv = csv0 /\ exc = "")
    /\ (pc = "export" /\ IsEmpty(transformed_data))
          => (db = db0 /\ LastLog.level = "WARNING")

\* a run over rows that were all dropped (a Cancelled row among them) has
\* ended, the stores holding earlier contents
C6_Witness ==
    /\ pc = "done"
    /\ TransformReturned
    /\ IsEmpty(transformed_data)
    /\ \E i \in 1..RawRowCount : RawCell(raw_data.rows[i], "STATUS") = Str("Cancelled")
    /\ db0.rows # <<>>
    /\ db = db0

\* C7: when the table-store write fails load_to_database returns without
\* raising and logs no success line, and main goes on to the export; a run
\* with a non-empty transformed table always reaches to_csv, whether the
\* table-store write succeeded or failed.
C7_SinkFailureRecovered ==
    /\ SinkFailed =>
          /\ pc \in {"export", "done"}
          /\ "load_to_database" \in Range(calls)
          /\ exc \in {"", "OSError"}
          /\ \A i \in DOMAIN log :
                log[i].msg # "Successfully loaded rows into 'sales' table."
    /\ (pc = "done" /\ TransformReturned /\ ~IsEmpty(transformed_data)) =>
          /\ "load_to_database" \in Range(calls)
          /\ \/ "to_csv" \in Range(calls) /\ out_csv = TableOf(transformed_data)
             \/ exc = "OSError"

\* a run whose table-store write failed has ended with the table exported
C7_Witness ==
    /\ pc = "done"
    /\ SinkFailed
    /\ exc = ""
    /\ "to_csv" \in Range(calls)
    /\ out_csv = TableOf(transformed_data)
    /\ db # TableOf(transformed_data)

\* lines of the files before file f of csv_files
RECURSIVE LinesBefore(_)
LinesBefore(f) ==
    IF f <= 1 THEN 0
    ELSE LinesBefore(f - 1) + Len(FileAt(directory, csv_files[f - 1]).lines)

\* C8: the table load_data returns has as many rows as the files have lines,
\* holds the files' lines in the order of the files and, within a file, of its
\* lines, tags every row with the base name of its file, and is null where the
\* row's file lacks a column another file has.
C8_IngestionOrder ==
    "load_data" \in Range(calls) =>
        /\ RawRowCount = LinesBefore(Len(csv_files) + 1)
        /\ \A f \in 1..Len(csv_files) :
              LET file == FileAt(directory, csv_files[f])
              IN \A j \in 1..Len(file.lines) :
                    LET row == raw_data.rows[LinesBefore(f) + j]
                    IN /\ row["source_file"] = Str(file.path.stem \o ".csv")
                       /\ \A k \in 1..Len(file.header) :
                             row[file.header[k]] = file.lines[j][k]
                       /\ \A c \in Range(raw_data.columns) :
                             (c \notin Range(file.header) /\ c # "source_file")
                                => row[c] = Null

\* two files with lines were loaded, the second decoded as latin1 and lacking
\* a column of the first
C8_Witness ==
    /\ "load_data" \in Range(calls)
    /\ Len(csv_files) = 2
    /\ FileAt(directory, csv_files[1]).lines # <<>>
    /\ Len(FileAt(directory, csv_files[2]).lines) >= 2
    /\ FileAt(directory, csv_files[2]).enc = "latin1"
    /\ HasColumn(raw_data, "PRODUCTLINE")
    /\ "PRODUCTLINE" \notin Range(FileAt(directory, csv_files[2]).header)
    /\ raw_data.rows[RawRowCount]["PRODUCTLINE"] = Null
    /\ raw_data.rows[RawRowCount]["source_file"] = Str("sales_2.csv")

\* C9: a run whose raw table has at least one row and no STATUS column ends in
\* an exception raised by transform_data; transform_data returns no table and
\* neither store is written.
C9_MissingStatusSurfaced ==
    (pc \in {"sink", "export", "done"} /\ RawRowCount >= 1
        /\ ~HasColumn(raw_data, "STATUS")) =>
        /\ pc = "done"
        /\ exc # ""
        /\ ~TransformReturned
        /\ transformed_data = EmptyFrame
        /\ db = db0
        /\ out_csv = csv0

\* a run over a file with a Category column and no STATUS column has ended in
\* the KeyError of the STATUS lookup
C9_Witness ==
    /\ pc = "done"
    /\ RawRowCount >= 1
    /\ ~HasColumn(raw_data, "STATUS")
    /\ exc = "KeyError: 'STATUS'"

\* labels of the raw rows from position i on that have an accepted STATUS and
\* every required field
RECURSIVE Qualifying(_)
Qualifying(i) ==
    IF i > RawRowCount THEN <<>>
    ELSE IF /\ RawCell(raw_data.rows[i], "STATUS") \in AcceptedStatus
            /\ Complete(raw_data.rows[i])
         THEN <<raw_data.index[i]>> \o Qualifying(i + 1)
         ELSE Qualifying(i + 1)

\* C10: for a raw table with a STATUS column the rows transform_data hands
\* back are, one for one and in the same order, the raw rows that have
\* an accepted STATUS and a non-null parsed SaleDate, Item, Quantity and
\* Price; no other step loses or duplicates a row.
C10_NoImplicitRowLoss ==
    (TransformDone /\ RawRowCount >= 1 /\ HasColumn(raw_data, "STATUS")) =>
        transformed_data.index = Qualifying(1)

====
